---- MODULE Spec2Model ----
(***************************************************************************)
(* Model of middleware/rateLimiter.js: the in-memory sliding-window rate   *)
(* limiter (requestStore, createRateLimiter, the three limiters of the     *)
(* rateLimiter factory and the periodic cleanup sweep).                    *)
(*                                                                         *)
(* Time is counted in ticks.  The program's durations are scaled so that   *)
(* their order is kept: windowMs (60000) < the sweep's staleness cutoff    *)
(* (60*60*1000), and one second (1000) < windowMs: a tick is a second.     *)
(* The three limiters'                                                     *)
(* maxRequests (20 < 60 < 120) are scaled to 1 < 2 < 3.                     *)
(***************************************************************************)
EXTENDS Integers, Sequences, FiniteSets, Bags, TLC

\* ---------------------------------------------------------------- bounds
MaxTime == 5        \* the clock stops here
MaxReqs == 4
MaxOps == 4        \* number of middleware invocations in a run

\* ------------------------------------------- program constants (scaled)
T0 == 1             \* Date.now() is a positive epoch time
WindowMs == 2       \* 60000 in every limiter of the factory
StaleMs == 3        \* 60 * 60 * 1000, the sweep's cutoff distance
MsPerSec == 1       \* the 1000 of Math.ceil(x / 1000): a tick is one second
StandardMax == 2    \* standard(): maxRequests = 60
AuthMax == 1        \* auth(): 20
SearchMax == 3      \* search(): 120

Limiters == {"standard", "auth", "search"}

\* JavaScript's undefined, as the value of req.ip or remoteAddress
UNDEF == "<undefined>"
IpValues == {"10.0.0.1", UNDEF}
\* req.connection: an object without remoteAddress, or no object at all
ConnValues == {"noaddr", "noconn"}
Methods == {"GET", "OPTIONS"}
\* res.statusCode values a downstream handler ends the response with
Statuses == {200, 400}

NoHeader == -1

\* ------------------------------------------------- the limiters' options
MaxRequestsOf(lim) ==
  CASE lim = "standard" -> StandardMax
    [] lim = "auth" -> AuthMax
    [] lim = "search" -> SearchMax

skipSuccessfulRequests(lim) == lim = "search"

keyPrefix(lim) ==
  CASE lim = "standard" -> "ratelimit:"
    [] lim = "auth" -> "ratelimit:auth:"
    [] lim = "search" -> "ratelimit:search:"

HasKeyGenerator(lim) == lim = "auth"

\* mutant: no method is exempt
skipMethods_none == {}

\* line 30: the default, which no limiter of the factory overrides
skipMethods == {"OPTIONS"}

\* req.path as seen by the limiter (relative to its mount point)
RouteOf(lim) ==
  CASE lim = "standard" -> "/posts"
    [] lim = "auth" -> "/login"
    [] lim = "search" -> "/"

\* `${v}` in a template literal
Str(v) == IF v = UNDEF THEN "undefined" ELSE v

\* req.ip || req.connection.remoteAddress || "0.0.0.0"; the connection
\* modelled has no remoteAddress
IpOrFallback(ip, conn) == IF ip # UNDEF THEN ip ELSE "0.0.0.0"

\* reading req.connection.remoteAddress of an undefined connection throws
KeyThrows(ip, conn) == ip = UNDEF /\ conn = "noconn"

KeyOf(lim, ip, conn) ==
  IF HasKeyGenerator(lim)
    THEN "ratelimit:auth:" \o Str(ip) \o ":" \o RouteOf(lim)
    ELSE keyPrefix(lim) \o IpOrFallback(ip, conn) \o ":" \o RouteOf(lim)

\* --------------------------------------------- the limiters in the app
\* request URLs, as their path segments
AuthUrl == <<"api", "auth", "login">>
SearchUrl == <<"api", "sneakers", "search">>
PostsUrl == <<"api", "posts">>
Urls == {AuthUrl, SearchUrl, PostsUrl}

\* the app.use calls that mount a limiter, in their order
Mounts ==
  << [path |-> <<"api", "auth">>, lim |-> "auth"],
     [path |-> <<"api", "sneakers", "search">>, lim |-> "search"],
     [path |-> <<"api">>, lim |-> "standard"] >>

\* Express runs a middleware mounted at a path for the URLs under it
IsPrefix(p, url) == Len(p) <= Len(url) /\ SubSeq(url, 1, Len(p)) = p

\* the limiters a URL passes, first mounted first
Chain(url) == SelectSeq(Mounts, LAMBDA m : IsPrefix(m.path, url))

RECURSIVE JoinPath(_)
JoinPath(segs) ==
  IF segs = <<>> THEN "" ELSE "/" \o Head(segs) \o JoinPath(Tail(segs))

\* req.path inside a middleware mounted at path p: the rest of the URL
PathUnder(p, url) ==
  IF Len(url) = Len(p) THEN "/" ELSE JoinPath(SubSeq(url, Len(p) + 1, Len(url)))

\* the key of a limiter mounted at m for a URL
KeyAt(m, ip, url) ==
  IF HasKeyGenerator(m.lim)
    THEN "ratelimit:auth:" \o Str(ip) \o ":" \o PathUnder(m.path, url)
    ELSE keyPrefix(m.lim) \o IpOrFallback(ip, "noaddr") \o ":" \o PathUnder(m.path, url)

MountPairs ==
  {<<m, url>> \in {Mounts[i] : i \in 1..Len(Mounts)} \X Urls : IsPrefix(m.path, url)}

Keys ==
  {KeyOf(lim, ip, "noaddr") : lim \in Limiters, ip \in IpValues}
    \cup {KeyAt(mu[1], ip, mu[2]) : mu \in MountPairs, ip \in IpValues}

\* the limiter that serves a key (the prefixes are disjoint)
LimiterOf ==
  [k \in Keys |->
     CHOOSE lim \in Limiters :
       \/ \E ip \in IpValues : KeyOf(lim, ip, "noaddr") = k
       \/ \E mu \in MountPairs, ip \in IpValues :
            mu[1].lim = lim /\ KeyAt(mu[1], ip, mu[2]) = k]

LimiterOfKey(k) == LimiterOf[k]

\* ------------------------------------------------------- pure helpers
Ceil(a, b) == (a + b - 1) \div b

Max0(x) == IF x > 0 THEN x ELSE 0

\* mutant: a timestamp exactly windowMs old is kept
InWindow_ge(timestamp, windowStart) == timestamp >= windowStart

\* line 60: the filter's test
InWindow(timestamp, windowStart) == timestamp > windowStart

RECURSIVE FilterWindow(_, _)

\* mutant: a fixed window, emptied as a whole once its oldest entry is out
FilterWindow_reset(s, windowStart) ==
  IF s # <<>> /\ ~InWindow(Head(s), windowStart) THEN <<>> ELSE s

\* lines 59-61: entry.requests.filter
FilterWindow(s, windowStart) ==
  IF s = <<>> THEN <<>>
  ELSE IF InWindow(Head(s), windowStart)
       THEN <<Head(s)>> \o FilterWindow(Tail(s), windowStart)
       ELSE FilterWindow(Tail(s), windowStart)

\* Array.prototype.indexOf, 1-based; 0 when absent
IndexOf(s, x) ==
  IF \E i \in 1..Len(s) : s[i] = x
    THEN CHOOSE i \in 1..Len(s) : s[i] = x /\ \A j \in 1..(i - 1) : s[j] # x
    ELSE 0

\* Array.prototype.splice(index, 1)
Splice(s, i) == SubSeq(s, 1, i - 1) \o SubSeq(s, i + 1, Len(s))

\* mutant: one request too many passes
LimitExceeded_gt(len, maxRequests) == len > maxRequests

\* line 78
LimitExceeded(len, maxRequests) == len >= maxRequests

\* mutant: the request is counted twice
Push_twice(requests, t) == Append(Append(requests, t), t)

\* mutant: unshift instead of push
Push_front(requests, t) == <<t>> \o requests

\* line 95: entry.requests.push(now)
Push(requests, t) == Append(requests, t)

\* mutant: a rejected request is recorded too
AfterReject_counted(pruned, t) == Append(pruned, t)

\* lines 78-92: the rejection returns before line 95, so the bucket keeps
\* the pruned timestamps and nothing else
AfterReject(pruned, t) == pruned

RemainingHeader(maxRequests, len) == Max0(maxRequests - len)

ResetTime(oldestRequest) == Ceil(oldestRequest + WindowMs, MsPerSec)

RetryAfter == Ceil(WindowMs, MsPerSec)

\* mutant: the test of the status is inverted
StatusIsSuccess_inverted(statusCode) == statusCode >= 400

\* line 101
StatusIsSuccess(statusCode) == statusCode < 400

\* mutant: the comparison with the cutoff is inverted
SweepDeletes_inverted(entry, t) == entry.firstRequest > t - StaleMs

\* lines 9 and 12
SweepDeletes(entry, t) == entry.firstRequest < t - StaleMs

\* Map.get of a key without entry
NoEntry == [requests |-> <<>>, firstRequest |-> 0]

\* mutant: one entry object shared by all keys
StoreSet_shared(store, key, entry) == [k \in DOMAIN store |-> entry]

\* lines 52-61, 95: the entry of the key, and no other, is set or mutated
StoreSet(store, key, entry) == [store EXCEPT ![key] = entry]

\* ------------------------------------------------------------- state
\* An entry object is identified by its key and its firstRequest: a key gets
\* a new entry only after the sweep deleted the previous one, whose
\* firstRequest is older.  An entry that the sweep deleted is reachable only
\* from the callbacks that captured it, and what they do to it is not
\* observable, so the model keeps the entries of the store only.
VARIABLES
  clientIp,      \* req.ip of the client whose requests the run follows
  now,           \* Date.now()
  requestStore,  \* Map key -> entry {requests, firstRequest} (NoEntry: none)
  listeners,     \* bag of res.on("finish") callbacks not yet run
  nreq,          \* number of middleware invocations so far
  last,          \* what the invocation of the step just taken did
  hist,          \* per key, the requests accepted in the trailing window
  nodeEnv,       \* process.env.NODE_ENV
  users,         \* the User collection of the database
  resp,          \* what the authentication or development handler just did
  userDocs,      \* the users collection: id -> following, followers, count
  postDocs,      \* the posts collection: id -> userId, sneakerId, likes, ...
  sneakerDocs,   \* the sneakers collection: id -> posts, ratings, average
  flight,        \* bag of requests of the API that wait at an await
  nops,          \* number of requests of the API started so far
  appResp        \* the latest response of a route of the API

limiterVars == <<clientIp, now, requestStore, listeners, nreq, last, hist>>

devVars == <<nodeEnv, users, resp>>

appVars == <<userDocs, postDocs, sneakerDocs, flight, nops, appResp>>

vars == <<limiterVars, devVars, appVars>>

\* a user registered through Firebase; a firebaseUid is a pair of its
\* beginning, which the cleanup's regular expression tests, and its rest
Alice == [username |-> "alice", firebaseUid |-> <<"fb_", "alice">>]

\* decodedToken.uid undefined; User.findOne's null and req.user undefined
NoUid == <<>>
NoUser == [username |-> UNDEF, firebaseUid |-> NoUid]

\* no handler of the authentication or development code has run
NoResp ==
  [handler |-> "none", status |-> 0, forwarded |-> FALSE, user |-> NoUser,
   returned |-> {}, created |-> {}, deleted |-> {},
   bypass |-> UNDEF, token |-> "none", verified |-> FALSE]

\* no route of the API has answered
NoAppResp ==
  [handler |-> "none", status |-> 0, actor |-> "", target |-> "",
   rating |-> [kind |-> "missing", value |-> 0], likeCount |-> -1,
   liked |-> FALSE]

\* the limiter reads neither NODE_ENV nor the database: no document, no
\* request of the API
DevAtRest ==
  /\ nodeEnv = "production"
  /\ users = {Alice}
  /\ resp = NoResp
  /\ userDocs = <<>>
  /\ postDocs = <<>>
  /\ sneakerDocs = <<>>
  /\ flight = EmptyBag
  /\ nops = 0
  /\ appResp = NoAppResp

NoHeaders == [limit |-> NoHeader, remaining |-> NoHeader,
              reset |-> NoHeader, retryAfter |-> NoHeader]

NoLast ==
  [lim |-> "standard", method |-> "GET", key |-> "", t |-> 0,
   outcome |-> "none", nextCalls |-> 0, status |-> 0,
   body |-> <<>>, logged |-> FALSE, threw |-> FALSE, hdr |-> NoHeaders,
   created |-> FALSE, pre |-> <<>>, count |-> 0, post |-> <<>>]

Init ==
  /\ clientIp \in IpValues
  /\ now = T0
  /\ requestStore = [k \in Keys |-> NoEntry]
  /\ listeners = EmptyBag
  /\ nreq = 0
  /\ last = NoLast
  /\ hist = [k \in Keys |-> <<>>]
  /\ DevAtRest

\* ------------------------------------------------ the middleware's paths
\* line 38: return next()
SkipResponse(base) ==
  [base EXCEPT !.outcome = "skipped", !.nextCalls = 1]

\* mutant: the error is answered with a 500 instead of being passed over
CatchResponse_500(base) ==
  [base EXCEPT !.outcome = "failopen", !.threw = TRUE, !.logged = TRUE,
               !.status = 500]

\* lines 111-115: the catch block
CatchResponse(base) ==
  [base EXCEPT !.outcome = "failopen", !.threw = TRUE, !.logged = TRUE,
               !.nextCalls = 1]

\* lines 64-75: the headers of every request that reaches them
RateHeaders(maxRequests, requests) ==
  [limit |-> maxRequests,
   remaining |-> RemainingHeader(maxRequests, Len(requests)),
   reset |-> IF requests # <<>> /\ requests[1] # 0
               THEN ResetTime(requests[1]) ELSE NoHeader,
   retryAfter |-> NoHeader]

\* mutant: the 429 is sent and the request forwarded as well
RejectResponse_next(base, hdr) ==
  [base EXCEPT !.outcome = "rejected", !.status = 429,
               !.hdr = [hdr EXCEPT !.retryAfter = RetryAfter],
               !.body = <<"message", "retryAfter">>, !.nextCalls = 1]

\* lines 78-92: the limit is exceeded, no custom handler
RejectResponse(base, hdr) ==
  [base EXCEPT !.outcome = "rejected", !.status = 429,
               !.hdr = [hdr EXCEPT !.retryAfter = RetryAfter],
               !.body = <<"message", "retryAfter">>]

\* lines 94-110: push, maybe listen, next()
AcceptResponse(base, hdr) ==
  [base EXCEPT !.outcome = "accepted", !.hdr = hdr, !.nextCalls = 1]

\* The middleware returned by createRateLimiter, run to completion: it has
\* no await, so nothing interleaves with it.  The limiters are mounted
\* before every route, so the response is untouched when they run and
\* res.setHeader does not throw; the error the model lets happen is the
\* TypeError of line 42.
Request(lim, method, conn) ==
  /\ nreq < MaxReqs
  /\ nreq' = nreq + 1
  /\ UNCHANGED <<clientIp, now, devVars, appVars>>
  /\ LET maxRequests == MaxRequestsOf(lim)
         ip == clientIp
         base == [NoLast EXCEPT !.lim = lim, !.method = method, !.t = now]
     IN
     IF method \in skipMethods THEN
       /\ last' = SkipResponse(base)
       /\ UNCHANGED <<requestStore, listeners, hist>>
     ELSE IF KeyThrows(ip, conn) THEN
       /\ last' = CatchResponse(base)
       /\ UNCHANGED <<requestStore, listeners, hist>>
     ELSE
       LET key == KeyOf(lim, ip, conn)
           windowStart == now - WindowMs
           created == requestStore[key] = NoEntry
           entry == IF created
                      THEN [requests |-> <<>>, firstRequest |-> now]
                      ELSE requestStore[key]
           pre == entry.requests
           pruned == FilterWindow(pre, windowStart)
           hdr == RateHeaders(maxRequests, pruned)
           withKey == [base EXCEPT !.key = key, !.created = created,
                                   !.pre = pre, !.count = Len(pruned)]
           event == [t |-> now, fresh |-> created, fate |-> "open"]
       IN
       IF LimitExceeded(Len(pruned), maxRequests) THEN
         /\ requestStore' = StoreSet(requestStore, key,
                [entry EXCEPT !.requests = AfterReject(pruned, now)])
         /\ last' = [RejectResponse(withKey, hdr) EXCEPT
                       !.post = AfterReject(pruned, now)]
         /\ UNCHANGED <<listeners, hist>>
       ELSE
         /\ requestStore' = StoreSet(requestStore, key,
                               [entry EXCEPT !.requests = Push(pruned, now)])
         /\ last' = [AcceptResponse(withKey, hdr) EXCEPT
                       !.post = Push(pruned, now)]
         /\ hist' = [hist EXCEPT ![key] = Append(@, event)]
         /\ listeners' =
              IF skipSuccessfulRequests(lim)
                THEN listeners (+) SetToBag({[key |-> key, ts |-> now,
                                   firstRequest |-> entry.firstRequest]})
                ELSE listeners

\* ghost: the first event of the key at time ts that is still open
OpenIndex(h, ts) ==
  IF \E i \in 1..Len(h) : h[i].t = ts /\ h[i].fate = "open"
    THEN CHOOSE i \in 1..Len(h) :
           /\ h[i].t = ts /\ h[i].fate = "open"
           /\ \A j \in 1..(i - 1) :
                ~(h[j].t = ts /\ h[j].fate = "open")
    ELSE 0

SetFate(h, ts, fate) ==
  IF OpenIndex(h, ts) = 0 THEN h
  ELSE [h EXCEPT ![OpenIndex(h, ts)].fate = fate]

\* the entry a callback captured is still the one in the store
Attached(l) ==
  /\ requestStore[l.key] # NoEntry
  /\ requestStore[l.key].firstRequest = l.firstRequest

\* The response of an accepted request ends: "finish" runs the callback of
\* lines 100-107.
Finish(l, statusCode) ==
  /\ BagIn(l, listeners)
  /\ listeners' = listeners (-) SetToBag({l})
  /\ LET requests == requestStore[l.key].requests
         index == IndexOf(requests, l.ts)
     IN requestStore' =
          IF Attached(l) /\ StatusIsSuccess(statusCode) /\ index > 0
            THEN [requestStore EXCEPT ![l.key].requests = Splice(requests, index)]
            ELSE requestStore
  /\ hist' = [hist EXCEPT ![l.key] =
                SetFate(@, l.ts, IF statusCode < 400 THEN "ok" ELSE "err")]
  /\ last' = NoLast
  /\ UNCHANGED <<clientIp, now, nreq, devVars, appVars>>

\* The connection closes before the response ends: "finish" is never
\* emitted and the callback never runs.
Abort(l) ==
  /\ BagIn(l, listeners)
  /\ listeners' = listeners (-) SetToBag({l})
  /\ hist' = [hist EXCEPT ![l.key] = SetFate(@, l.ts, "aborted")]
  /\ last' = NoLast
  /\ UNCHANGED <<clientIp, now, requestStore, nreq, devVars, appVars>>

\* lines 7-16: the setInterval callback
Sweep ==
  /\ \E k \in Keys : requestStore[k] # NoEntry /\ SweepDeletes(requestStore[k], now)
  /\ requestStore' = [k \in Keys |->
       IF requestStore[k] # NoEntry /\ SweepDeletes(requestStore[k], now)
         THEN NoEntry ELSE requestStore[k]]
  /\ last' = NoLast
  /\ UNCHANGED <<clientIp, now, listeners, nreq, hist, devVars, appVars>>

\* ghost: the events of the window that ends at time t
RECURSIVE Recent(_, _)
Recent(h, t) ==
  IF h = <<>> THEN <<>>
  ELSE IF h[1].t > t - WindowMs THEN h ELSE Recent(Tail(h), t)

\* the clock advances
Tick ==
  /\ now < MaxTime
  /\ now' = now + 1
  /\ hist' = [k \in Keys |-> Recent(hist[k], now + 1)]
  /\ last' = NoLast
  /\ UNCHANGED <<clientIp, requestStore, listeners, nreq, devVars, appVars>>

Next ==
  \/ \E lim \in Limiters, method \in Methods, conn \in ConnValues :
       Request(lim, method, conn)
  \/ \E l \in BagToSet(listeners), statusCode \in Statuses : Finish(l, statusCode)
  \/ \E l \in BagToSet(listeners) : Abort(l)
  \/ Sweep
  \/ Tick

Spec == Init /\ [][Next]_vars

\* One limiter of the chain of a URL, as in Request, on the state st that
\* the limiters before it left.
Apply(m, url, st) ==
  LET lim == m.lim
      maxRequests == MaxRequestsOf(lim)
      key == KeyAt(m, clientIp, url)
      created == st.store[key] = NoEntry
      entry == IF created
                 THEN [requests |-> <<>>, firstRequest |-> now]
                 ELSE st.store[key]
      pre == entry.requests
      pruned == FilterWindow(pre, now - WindowMs)
      hdr == RateHeaders(maxRequests, pruned)
      base == [st.resp EXCEPT !.lim = lim, !.key = key, !.created = created,
                              !.pre = pre, !.count = Len(pruned)]
      event == [t |-> now, fresh |-> created, fate |-> "open"]
      listener == [key |-> key, ts |-> now, firstRequest |-> entry.firstRequest]
  IN
  IF LimitExceeded(Len(pruned), maxRequests) THEN
    [st EXCEPT !.store = StoreSet(@, key,
                   [entry EXCEPT !.requests = AfterReject(pruned, now)]),
               !.resp = [RejectResponse(base, hdr) EXCEPT
                           !.post = AfterReject(pruned, now)]]
  ELSE
    [st EXCEPT !.store = StoreSet(@, key,
                           [entry EXCEPT !.requests = Push(pruned, now)]),
               !.resp = [AcceptResponse(base, hdr) EXCEPT
                           !.post = Push(pruned, now)],
               !.hist = [@ EXCEPT ![key] = Append(@, event)],
               !.pending = IF skipSuccessfulRequests(lim)
                             THEN Append(@, listener) ELSE @]

\* next() hands the request to the next limiter; a 429 ends the chain
RECURSIVE RunChain(_, _, _)
RunChain(chain, url, st) ==
  IF chain = <<>> \/ st.resp.outcome = "rejected" THEN st
  ELSE RunChain(Tail(chain), url, Apply(Head(chain), url, st))

\* the callbacks of a request that a later limiter answered with 429: the
\* status is not below 400, so they leave the store as it is
RECURSIVE Settle(_, _)
Settle(h, pending) ==
  IF pending = <<>> THEN h
  ELSE Settle([h EXCEPT ![Head(pending).key] =
                  SetFate(@, Head(pending).ts, "err")],
              Tail(pending))

RECURSIVE BagOfSeq(_)
BagOfSeq(q) ==
  IF q = <<>> THEN EmptyBag ELSE SetToBag({Head(q)}) (+) BagOfSeq(Tail(q))

\* A GET request to a URL of the API passes the limiters mounted over it
\* (index.js, the three app.use calls before the routes).
Http(url) ==
  /\ nreq < MaxReqs
  /\ nreq' = nreq + 1
  /\ UNCHANGED <<clientIp, now, devVars, appVars>>
  /\ LET st0 == [store |-> requestStore, hist |-> hist, pending |-> <<>>,
                 resp |-> [NoLast EXCEPT !.method = "GET", !.t = now]]
         fin == RunChain(Chain(url), url, st0)
     IN /\ requestStore' = fin.store
        /\ last' = fin.resp
        /\ IF fin.resp.outcome = "rejected"
             THEN /\ hist' = Settle(fin.hist, fin.pending)
                  /\ UNCHANGED listeners
             ELSE /\ hist' = fin.hist
                  /\ listeners' = listeners (+) BagOfSeq(fin.pending)

NextMount ==
  \/ \E url \in Urls : Http(url)
  \/ \E l \in BagToSet(listeners), statusCode \in Statuses : Finish(l, statusCode)
  \/ \E l \in BagToSet(listeners) : Abort(l)
  \/ Sweep
  \/ Tick

SpecMount == Init /\ [][NextMount]_vars

\* The server has been up for a while: the client's search bucket exists
\* since a request at T0 whose response ended with an error status.
InitWarm ==
  /\ clientIp \in IpValues
  /\ now = T0
  /\ requestStore = [k \in Keys |->
       IF k = KeyOf("search", clientIp, "noaddr")
         THEN [requests |-> <<T0>>, firstRequest |-> T0]
         ELSE NoEntry]
  /\ listeners = EmptyBag
  /\ nreq = 0
  /\ last = NoLast
  /\ hist = [k \in Keys |->
       IF k = KeyOf("search", clientIp, "noaddr")
         THEN <<[t |-> T0, fresh |-> TRUE, fate |-> "err"]>>
         ELSE <<>>]
  /\ DevAtRest

SpecWarm == InitWarm /\ [][Next]_vars

\* The steps that matter to the life of a bucket: requests that reach the
\* store, for a limiter without and one with completion callbacks, the
\* callbacks, the sweep and the clock.  Exempt and throwing requests and
\* aborted responses leave the store as it is.
NextLive ==
  \/ \E lim \in {"auth", "search"} : Request(lim, "GET", "noaddr")
  \/ \E l \in BagToSet(listeners), statusCode \in Statuses : Finish(l, statusCode)
  \/ Sweep
  \/ Tick

\* one client with an address
InitLive == Init /\ clientIp = "10.0.0.1"

\* setInterval (line 7) keeps calling the sweep and the clock keeps
\* advancing, up to the bound of the model.
SpecLive == InitLive /\ [][NextLive]_vars /\ WF_vars(Tick) /\ WF_vars(Sweep)

TypeOK ==
  /\ now \in T0..MaxTime
  /\ nreq \in 0..MaxReqs

\* ------------------------------ authentication and development routes
\* values of NODE_ENV
Envs == {"development", "production", "test", "staging", UNDEF}

Usernames == {"alice", "testuser", "devuser"}

\* the x-dev-bypass header
BypassValues == {"true", "1", UNDEF}

\* the Authorization header: absent, of another scheme, "Bearer undefined",
\* or "Bearer " with a token that Firebase finds expired, invalid, or valid
\* (for Alice, for a uid without user in the database, without uid)
Tokens == {"none", "basic", "bearer-undefined", "expired", "invalid",
           "valid-alice", "valid-unknown", "valid-nouid"}

\* auth.js lines 19-20
HasBearer(token) == token \notin {"none", "basic"}

\* auth.js line 29
TokenFormatOk(token) == token # "bearer-undefined"

\* verifyFirebaseToken resolves (it throws otherwise)
Verifies(token) == token \in {"valid-alice", "valid-unknown", "valid-nouid"}

\* decodedToken.uid
UidOf(token) ==
  CASE token = "valid-alice" -> Alice.firebaseUid
    [] token = "valid-unknown" -> <<"fb_", "nobody">>
    [] OTHER -> NoUid

\* User.findOne: the user, or null
FindByUsername(name) ==
  IF \E u \in users : u.username = name
    THEN CHOOSE u \in users : u.username = name
    ELSE NoUser

FindByUid(uid) ==
  IF \E u \in users : u.firebaseUid = uid
    THEN CHOOSE u \in users : u.firebaseUid = uid
    ELSE NoUser

\* dev.js line 162: { firebaseUid: { $regex: /^(dev_|mock_|test_)/ } }
MatchesCleanup(uid) == uid[1] \in {"dev_", "mock_", "test_"}

\* dev.js lines 12-19: devOnly calls next()
devOnly(env) == env # "production"

\* mutant: the test of the other development middlewares
DevBypass_notProduction(env, header) == env # "production" /\ header = "true"

\* auth.js lines 11-14
DevBypass(env, header) == env = "development" /\ header = "true"

Refused(handler) == [NoResp EXCEPT !.handler = handler, !.status = 403]

\* POST /api/dev/create-user
CreateUser(username) ==
  /\ UNCHANGED <<limiterVars, appVars, nodeEnv>>
  /\ LET userData == [username |-> username,
                      firebaseUid |-> <<"dev_", "uid_" \o username>>]
         base == [NoResp EXCEPT !.handler = "create-user"]
     IN IF ~devOnly(nodeEnv) THEN
          /\ resp' = Refused("create-user")
          /\ UNCHANGED users
        ELSE IF \E u \in users : \/ u.username = userData.username
                                  \/ u.firebaseUid = userData.firebaseUid THEN
          /\ resp' = [base EXCEPT !.status = 400]
          /\ UNCHANGED users
        ELSE
          /\ users' = users \cup {userData}
          /\ resp' = [base EXCEPT !.status = 201, !.created = {userData},
                                  !.returned = {userData}]

\* GET /api/dev/users
ListUsers ==
  /\ UNCHANGED <<limiterVars, appVars, nodeEnv, users>>
  /\ resp' = IF ~devOnly(nodeEnv) THEN Refused("users")
             ELSE [NoResp EXCEPT !.handler = "users", !.status = 200,
                                 !.returned = users]

\* POST /api/dev/mock-login
MockLogin(username) ==
  /\ UNCHANGED <<limiterVars, appVars, nodeEnv>>
  /\ LET found == FindByUsername(username)
         userData == [username |-> username,
                      firebaseUid |-> <<"mock_", "uid_" \o username>>]
         base == [NoResp EXCEPT !.handler = "mock-login", !.status = 200]
     IN IF ~devOnly(nodeEnv) THEN
          /\ resp' = Refused("mock-login")
          /\ UNCHANGED users
        ELSE IF found # NoUser THEN
          /\ resp' = [base EXCEPT !.returned = {found}]
          /\ UNCHANGED users
        ELSE
          /\ users' = users \cup {userData}
          /\ resp' = [base EXCEPT !.created = {userData},
                                  !.returned = {userData}]

\* DELETE /api/dev/cleanup
Cleanup ==
  /\ UNCHANGED <<limiterVars, appVars, nodeEnv>>
  /\ LET gone == {u \in users : MatchesCleanup(u.firebaseUid)}
     IN IF ~devOnly(nodeEnv) THEN
          /\ resp' = Refused("cleanup")
          /\ UNCHANGED users
        ELSE
          /\ users' = users \ gone
          /\ resp' = [NoResp EXCEPT !.handler = "cleanup", !.status = 200,
                                    !.deleted = gone]

\* auth.dev.js authenticateDev, with the x-dev-username header or none
AuthenticateDev(devUsername) ==
  /\ UNCHANGED <<limiterVars, appVars, nodeEnv, users>>
  /\ LET user == FindByUsername(devUsername)
         base == [NoResp EXCEPT !.handler = "authenticateDev"]
     IN resp' =
          IF nodeEnv = "production" THEN Refused("authenticateDev")
          ELSE IF devUsername = UNDEF THEN [base EXCEPT !.status = 401]
          ELSE IF user = NoUser THEN [base EXCEPT !.status = 404]
          ELSE [base EXCEPT !.forwarded = TRUE, !.user = user]

\* auth.dev.js mockFirebaseAuth, with the x-mock-username header or none
MockFirebaseAuth(mockUsername) ==
  /\ UNCHANGED <<limiterVars, appVars, nodeEnv>>
  /\ LET name == IF mockUsername = UNDEF THEN "devuser" ELSE mockUsername
         mockUid == <<"dev-", "firebase-uid-123">>
         user == FindByUid(mockUid)
         userData == [username |-> name, firebaseUid |-> mockUid]
         base == [NoResp EXCEPT !.handler = "mockFirebaseAuth"]
     IN IF nodeEnv = "production" THEN
          /\ resp' = Refused("mockFirebaseAuth")
          /\ UNCHANGED users
        ELSE IF user # NoUser THEN
          /\ resp' = [base EXCEPT !.forwarded = TRUE, !.user = user]
          /\ UNCHANGED users
        ELSE IF FindByUsername(name) # NoUser THEN
          /\ resp' = [base EXCEPT !.status = 400]
          /\ UNCHANGED users
        ELSE
          /\ users' = users \cup {userData}
          /\ resp' = [base EXCEPT !.forwarded = TRUE, !.user = userData,
                                  !.created = {userData}]

\* auth.js authenticate (lines 8-83) with handleDevBypass (lines 88-127)
Authenticate(bypass, token, devUsername) ==
  /\ UNCHANGED <<limiterVars, appVars, nodeEnv>>
  /\ LET base == [NoResp EXCEPT !.handler = "authenticate",
                                !.bypass = bypass, !.token = token]
         name == IF devUsername = UNDEF THEN "testuser" ELSE devUsername
         found == FindByUsername(name)
         userData == [username |-> name, firebaseUid |-> <<"dev-", name>>]
         user == FindByUid(UidOf(token))
     IN IF DevBypass(nodeEnv, bypass) THEN
          IF found # NoUser THEN
            /\ resp' = [base EXCEPT !.forwarded = TRUE, !.user = found]
            /\ UNCHANGED users
          ELSE
            /\ users' = users \cup {userData}
            /\ resp' = [base EXCEPT !.forwarded = TRUE, !.user = userData,
                                    !.created = {userData}]
        ELSE
          /\ UNCHANGED users
          /\ resp' =
               IF ~HasBearer(token) \/ ~TokenFormatOk(token)
                 THEN [base EXCEPT !.status = 401]
               ELSE IF ~Verifies(token)
                 THEN [base EXCEPT !.status = 401, !.verified = TRUE]
               ELSE IF UidOf(token) = NoUid
                 THEN [base EXCEPT !.status = 401, !.verified = TRUE]
               ELSE IF user = NoUser
                 THEN [base EXCEPT !.status = 404, !.verified = TRUE]
               ELSE [base EXCEPT !.forwarded = TRUE, !.user = user,
                                 !.verified = TRUE]

InitDev ==
  /\ clientIp = "10.0.0.1"
  /\ now = T0
  /\ requestStore = [k \in Keys |-> NoEntry]
  /\ listeners = EmptyBag
  /\ nreq = 0
  /\ last = NoLast
  /\ hist = [k \in Keys |-> <<>>]
  /\ nodeEnv \in Envs
  /\ users = {Alice}
  /\ resp = NoResp
  /\ userDocs = <<>>
  /\ postDocs = <<>>
  /\ sneakerDocs = <<>>
  /\ flight = EmptyBag
  /\ nops = 0
  /\ appResp = NoAppResp

NextDev ==
  \/ \E username \in Usernames : CreateUser(username)
  \/ ListUsers
  \/ \E username \in Usernames : MockLogin(username)
  \/ Cleanup
  \/ \E devUsername \in Usernames \cup {UNDEF} : AuthenticateDev(devUsername)
  \/ \E mockUsername \in {"alice", UNDEF} : MockFirebaseAuth(mockUsername)
  \/ \E bypass \in BypassValues, token \in Tokens,
        devUsername \in {"alice", UNDEF} :
       Authenticate(bypass, token, devUsername)

SpecDev == InitDev /\ [][NextDev]_vars

\* ------------------------------------------------ the routes of the API
\* ids of users; "u9" is a well-formed id without document
UserIds == {"u1", "u2"}
NoSuchUser == "u9"

\* ids of posts and sneakers; "p9" and "s9" are well-formed ids without
\* document
PostIds == {"p1", "p2"}
NoSuchPost == "p9"
SneakerIds == {"s1", "s2"}
NoSuchSneaker == "s9"

\* a number that is the quotient num / den
Frac(num, den) == [num |-> num, den |-> den]
Zero == Frac(0, 1)

\* a post and a sneaker document as their creation leaves them
NewPost(u, sn) ==
  [userId |-> u, sneakerId |-> sn, likes |-> <<>>, description |-> "d0"]
NewSneaker(posts) ==
  [posts |-> posts, ratings |-> <<>>, averageRating |-> Zero]

\* a user document as the schema creates it (models/User.js)
NewUser == [following |-> <<>>, followers |-> <<>>, totalSneakerCount |-> 0]

\* MongooseArray.includes
Includes(s, x) == \E i \in 1..Len(s) : s[i] = x

\* $push: the array may hold the value already
PushTo(s, x) == Append(s, x)

\* $pull: every occurrence goes
Pull(s, x) == SelectSeq(s, LAMBDA y : y # x)

\* the limiter state of a server that no request has reached
LimiterAtRest ==
  /\ clientIp = "10.0.0.1"
  /\ now = T0
  /\ requestStore = [k \in Keys |-> NoEntry]
  /\ listeners = EmptyBag
  /\ nreq = 0
  /\ last = NoLast
  /\ hist = [k \in Keys |-> <<>>]
  /\ nodeEnv = "production"
  /\ users = {Alice}
  /\ resp = NoResp

Answer(handler, status, actor, target) ==
  [NoAppResp EXCEPT !.handler = handler, !.status = status,
                    !.actor = actor, !.target = target]

\* POST /api/users/:id/follow and /unfollow up to the first await of the
\* handler: authenticate has loaded req.user, the id is not the user's own
FollowBegin(kind, a, b) ==
  /\ nops < MaxOps
  /\ nops' = nops + 1
  /\ UNCHANGED <<limiterVars, devVars, userDocs, postDocs, sneakerDocs>>
  /\ IF b = a THEN
       /\ appResp' = Answer(kind, 400, a, b)
       /\ UNCHANGED flight
     ELSE
       /\ appResp' = NoAppResp
       /\ flight' = flight (+) SetToBag({[kind |-> kind, actor |-> a,
                       target |-> b, pc |-> "lookup",
                       snapshot |-> userDocs[a].following]})

\* after User.findById: the test on req.user.following, as authenticate
\* loaded it, and the update of the user's own document
FollowFirst(r) ==
  /\ BagIn(r, flight)
  /\ r.kind \in {"follow", "unfollow"}
  /\ r.pc = "lookup"
  /\ UNCHANGED <<limiterVars, devVars, postDocs, sneakerDocs, nops>>
  /\ LET rest == flight (-) SetToBag({r})
         already == Includes(r.snapshot, r.target)
     IN IF r.target \notin DOMAIN userDocs THEN
          /\ appResp' = Answer(r.kind, 404, r.actor, r.target)
          /\ flight' = rest
          /\ UNCHANGED userDocs
        ELSE IF (r.kind = "follow") = already THEN
          /\ appResp' = Answer(r.kind, 400, r.actor, r.target)
          /\ flight' = rest
          /\ UNCHANGED userDocs
        ELSE
          /\ userDocs' = [userDocs EXCEPT ![r.actor].following =
                            IF r.kind = "follow" THEN PushTo(@, r.target)
                                                 ELSE Pull(@, r.target)]
          /\ flight' = rest (+) SetToBag({[r EXCEPT !.pc = "second"]})
          /\ appResp' = NoAppResp

\* the update of the other user's document, and the response
FollowSecond(r) ==
  /\ BagIn(r, flight)
  /\ r.kind \in {"follow", "unfollow"}
  /\ r.pc = "second"
  /\ UNCHANGED <<limiterVars, devVars, postDocs, sneakerDocs, nops>>
  /\ userDocs' = [userDocs EXCEPT ![r.target].followers =
                    IF r.kind = "follow" THEN PushTo(@, r.actor)
                                         ELSE Pull(@, r.actor)]
  /\ flight' = flight (-) SetToBag({r})
  /\ appResp' = Answer(r.kind, 200, r.actor, r.target)

InitFollow ==
  /\ LimiterAtRest
  /\ userDocs = [u \in UserIds |-> NewUser]
  /\ postDocs = <<>>
  /\ sneakerDocs = <<>>
  /\ flight = EmptyBag
  /\ nops = 0
  /\ appResp = NoAppResp

NextFollow ==
  \/ \E kind \in {"follow", "unfollow"}, a \in UserIds,
        b \in UserIds \cup {NoSuchUser} : FollowBegin(kind, a, b)
  \/ \E r \in BagToSet(flight) : FollowFirst(r)
  \/ \E r \in BagToSet(flight) : FollowSecond(r)

SpecFollow == InitFollow /\ [][NextFollow]_vars

\* POST /api/posts/:id/like up to the first await of the handler
LikeBegin(u, p) ==
  /\ nops < MaxOps
  /\ nops' = nops + 1
  /\ UNCHANGED <<limiterVars, devVars, userDocs, postDocs, sneakerDocs>>
  /\ appResp' = NoAppResp
  /\ flight' = flight (+) SetToBag({[kind |-> "like", actor |-> u,
                  target |-> p, pc |-> "find", snapshot |-> <<>>]})

\* Post.findById: the handler holds the post as it is now
LikeFind(r) ==
  /\ BagIn(r, flight)
  /\ r.kind = "like"
  /\ r.pc = "find"
  /\ UNCHANGED <<limiterVars, devVars, userDocs, postDocs, sneakerDocs, nops>>
  /\ LET rest == flight (-) SetToBag({r})
     IN IF r.target \notin DOMAIN postDocs THEN
          /\ appResp' = Answer("like", 404, r.actor, r.target)
          /\ flight' = rest
        ELSE
          /\ appResp' = NoAppResp
          /\ flight' = rest (+) SetToBag({[r EXCEPT !.pc = "write",
                          !.snapshot = postDocs[r.target].likes]})

\* alreadyLiked, read from the post the handler holds, chooses the update
alreadyLiked(r) == Includes(r.snapshot, r.actor)

LikeWrite(r) ==
  /\ BagIn(r, flight)
  /\ r.kind = "like"
  /\ r.pc = "write"
  /\ UNCHANGED <<limiterVars, devVars, userDocs, sneakerDocs, nops>>
  /\ postDocs' = [postDocs EXCEPT ![r.target].likes =
                    IF alreadyLiked(r) THEN Pull(@, r.actor)
                                       ELSE PushTo(@, r.actor)]
  /\ flight' = (flight (-) SetToBag({r}))
                  (+) SetToBag({[r EXCEPT !.pc = "reread"]})
  /\ appResp' = NoAppResp

\* the second Post.findById and the response
LikeAnswer(r) ==
  /\ BagIn(r, flight)
  /\ r.kind = "like"
  /\ r.pc = "reread"
  /\ UNCHANGED <<limiterVars, devVars, userDocs, postDocs, sneakerDocs, nops>>
  /\ flight' = flight (-) SetToBag({r})
  /\ appResp' = [Answer("like", 200, r.actor, r.target) EXCEPT
                   !.likeCount = Len(postDocs[r.target].likes),
                   !.liked = ~alreadyLiked(r)]

InitLike ==
  /\ LimiterAtRest
  /\ userDocs = [u \in UserIds |-> NewUser]
  /\ postDocs = [p \in {"p1"} |-> NewPost("u1", "s1")]
  /\ sneakerDocs = [sn \in {"s1"} |-> NewSneaker(<<"p1">>)]
  /\ flight = EmptyBag
  /\ nops = 0
  /\ appResp = NoAppResp

NextLike ==
  \/ \E u \in UserIds, p \in {"p1", NoSuchPost} : LikeBegin(u, p)
  \/ \E r \in BagToSet(flight) : LikeFind(r)
  \/ \E r \in BagToSet(flight) : LikeWrite(r)
  \/ \E r \in BagToSet(flight) : LikeAnswer(r)

SpecLike == InitLike /\ [][NextLike]_vars

\* req.body.rating: absent, a number, or a text that is no number
NumberInputs == {-1, 0, 1, 3, 5, 6}
RatingInputs ==
  {[kind |-> "number", value |-> n] : n \in NumberInputs}
    \cup {[kind |-> "missing", value |-> 0], [kind |-> "text", value |-> 0]}

\* !rating || rating < 1 || rating > 5 (every comparison with NaN is false)
RatingRejected(input) ==
  \/ input.kind = "missing"
  \/ /\ input.kind = "number"
     /\ (input.value = 0 \/ input.value < 1 \/ input.value > 5)

\* the schema casts the rating to a Number when the document is saved
CastFails(input) == input.kind = "text"

\* sneaker.ratings.findIndex by userId: 0 stands for -1
existingRatingIndex(ratings, u) ==
  IF \E i \in 1..Len(ratings) : ratings[i].userId = u
    THEN CHOOSE i \in 1..Len(ratings) :
           /\ ratings[i].userId = u
           /\ \A j \in 1..(i - 1) : ratings[j].userId # u
    ELSE 0

\* mutant: a second rating of the same user is pushed as well
SetRating_push(ratings, u, v) == Append(ratings, [userId |-> u, rating |-> v])

\* update the user's rating, or push the first one
SetRating(ratings, u, v) ==
  LET i == existingRatingIndex(ratings, u)
  IN IF i # 0 THEN [ratings EXCEPT ![i].rating = v]
              ELSE Append(ratings, [userId |-> u, rating |-> v])

RECURSIVE SumRatings(_)
SumRatings(ratings) ==
  IF ratings = <<>> THEN 0
  ELSE ratings[1].rating + SumRatings(Tail(ratings))

\* models/Sneaker.js calculateAverageRating
calculateAverageRating(ratings) ==
  IF Len(ratings) = 0 THEN Zero
  ELSE Frac(SumRatings(ratings), Len(ratings))

\* Post.updateMany with arrayFilters and upsert: it has a post of the
\* sneaker to update, or the upsert of a new one is refused by the database
UpdateManyOutcomes(sn) ==
  IF \E p \in DOMAIN postDocs : postDocs[p].sneakerId = sn
    THEN {"ok"} ELSE {"ok", "throws"}

\* POST /api/sneakers/:id/rate
Rate(u, sn, input, outcome) ==
  /\ UNCHANGED <<limiterVars, devVars, userDocs, postDocs, flight, nops>>
  /\ IF RatingRejected(input) THEN
       /\ appResp' = [Answer("rate", 400, u, sn) EXCEPT !.rating = input]
       /\ UNCHANGED sneakerDocs
     ELSE IF sn \notin DOMAIN sneakerDocs THEN
       /\ appResp' = [Answer("rate", 404, u, sn) EXCEPT !.rating = input]
       /\ UNCHANGED sneakerDocs
     ELSE IF CastFails(input) THEN
       /\ appResp' = [Answer("rate", 500, u, sn) EXCEPT !.rating = input]
       /\ UNCHANGED sneakerDocs
     ELSE
       /\ outcome \in UpdateManyOutcomes(sn)
       /\ LET ratings == SetRating(sneakerDocs[sn].ratings, u, input.value)
          IN sneakerDocs' = [sneakerDocs EXCEPT
               ![sn].ratings = ratings,
               ![sn].averageRating = calculateAverageRating(ratings)]
       /\ appResp' = [Answer("rate", IF outcome = "ok" THEN 200 ELSE 500,
                             u, sn) EXCEPT !.rating = input]

InitRate ==
  /\ LimiterAtRest
  /\ userDocs = [u \in UserIds |-> NewUser]
  /\ postDocs = [p \in {"p1"} |-> NewPost("u1", "s1")]
  /\ sneakerDocs = [sn \in SneakerIds |->
                     NewSneaker(IF sn = "s1" THEN <<"p1">> ELSE <<>>)]
  /\ flight = EmptyBag
  /\ nops = 0
  /\ appResp = NoAppResp

NextRate ==
  \E u \in UserIds, sn \in SneakerIds \cup {NoSuchSneaker},
     input \in RatingInputs, outcome \in {"ok", "throws"} :
    Rate(u, sn, input, outcome)

SpecRate == InitRate /\ [][NextRate]_vars

\* a field that holds null
Null == -1

\* Post.distinct("sneakerId", {userId}) once awaited: its length
DistinctSneakers(u, docs) ==
  Cardinality({docs[p].sneakerId :
                 p \in {q \in DOMAIN docs : docs[q].userId = u}})

\* what User.findByIdAndUpdate(id, {totalSneakerCount: undefined}) leaves in
\* the field: `await Post.distinct(..).length` reads the property length of
\* the Query, which has none; the update layer drops the key or writes null
UndefinedCountOutcomes(old) == {old, Null}

\* mutant: nobody is refused
NotOwner_never(post, u) == FALSE

\* post.userId.toString() !== req.user._id.toString()
NotOwner(post, u) == post.userId # u

\* POST /api/posts: valid says that the required fields and the main image
\* are there; sn is the sneaker of that name and brand, created when absent
CreatePost(u, sn, valid, count) ==
  /\ UNCHANGED <<limiterVars, devVars, flight, nops>>
  /\ IF ~valid THEN
       /\ appResp' = Answer("create", 400, u, "")
       /\ UNCHANGED <<userDocs, postDocs, sneakerDocs>>
     ELSE
       /\ PostIds \ DOMAIN postDocs # {}
       /\ count \in UndefinedCountOutcomes(userDocs[u].totalSneakerCount)
       /\ LET p == CHOOSE q \in PostIds : q \notin DOMAIN postDocs
              found == IF sn \in DOMAIN sneakerDocs THEN sneakerDocs[sn]
                                                   ELSE NewSneaker(<<>>)
          IN /\ postDocs' = [q \in DOMAIN postDocs \cup {p} |->
                               IF q = p THEN NewPost(u, sn) ELSE postDocs[q]]
             /\ sneakerDocs' = [t \in DOMAIN sneakerDocs \cup {sn} |->
                                 IF t = sn
                                   THEN [found EXCEPT
                                           !.posts = PushTo(@, p)]
                                   ELSE sneakerDocs[t]]
             /\ appResp' = Answer("create", 201, u, p)
       /\ userDocs' = [userDocs EXCEPT ![u].totalSneakerCount = count]

\* PUT /api/posts/:id; an empty description is not written
UpdatePost(u, p, description) ==
  /\ UNCHANGED <<limiterVars, devVars, userDocs, sneakerDocs, flight, nops>>
  /\ IF p \notin DOMAIN postDocs THEN
       /\ appResp' = Answer("put", 404, u, p)
       /\ UNCHANGED postDocs
     ELSE IF NotOwner(postDocs[p], u) THEN
       /\ appResp' = Answer("put", 403, u, p)
       /\ UNCHANGED postDocs
     ELSE
       /\ postDocs' = [postDocs EXCEPT ![p].description =
                         IF description # "" THEN description ELSE @]
       /\ appResp' = Answer("put", 200, u, p)

\* DELETE /api/posts/:id
DeletePost(u, p) ==
  /\ UNCHANGED <<limiterVars, devVars, flight, nops>>
  /\ IF p \notin DOMAIN postDocs THEN
       /\ appResp' = Answer("delete", 404, u, p)
       /\ UNCHANGED <<userDocs, postDocs, sneakerDocs>>
     ELSE IF NotOwner(postDocs[p], u) THEN
       /\ appResp' = Answer("delete", 403, u, p)
       /\ UNCHANGED <<userDocs, postDocs, sneakerDocs>>
     ELSE
       /\ sneakerDocs' = [sneakerDocs EXCEPT
                           ![postDocs[p].sneakerId].posts = Pull(@, p)]
       /\ postDocs' = [q \in DOMAIN postDocs \ {p} |-> postDocs[q]]
       /\ userDocs' = [userDocs EXCEPT ![u].totalSneakerCount =
                         DistinctSneakers(u, postDocs')]
       /\ appResp' = Answer("delete", 200, u, p)

InitPosts ==
  /\ LimiterAtRest
  /\ userDocs = [u \in UserIds |-> NewUser]
  /\ postDocs = <<>>
  /\ sneakerDocs = <<>>
  /\ flight = EmptyBag
  /\ nops = 0
  /\ appResp = NoAppResp

NextPosts ==
  \/ \E u \in UserIds, sn \in SneakerIds, valid \in BOOLEAN,
        count \in 0..Cardinality(SneakerIds) \cup {Null} :
       CreatePost(u, sn, valid, count)
  \/ \E u \in UserIds, p \in PostIds \cup {NoSuchPost},
        description \in {"", "d1"} : UpdatePost(u, p, description)
  \/ \E u \in UserIds, p \in PostIds \cup {NoSuchPost} : DeletePost(u, p)

SpecPosts == InitPosts /\ [][NextPosts]_vars

\* ======================================================== the claims
\* the invocation of the step just taken reached the limiter's decision
Normal == last.outcome \in {"accepted", "rejected"}

\* the requests accepted for the key of the latest invocation in the
\* trailing window, without that invocation itself
Prior ==
  IF last.outcome = "accepted"
    THEN SubSeq(hist[last.key], 1, Len(hist[last.key]) - 1)
    ELSE hist[last.key]

\* the key's bucket was created inside the trailing window
FreshIn(h) == \E i \in 1..Len(h) : h[i].fresh

\* the requests accepted since the key's bucket was created
Since(h) ==
  LET i == CHOOSE j \in 1..Len(h) :
             h[j].fresh /\ \A m \in (j + 1)..Len(h) : ~h[m].fresh
  IN SubSeq(h, i, Len(h))

\* the same for the request handled, which may have created the bucket
PriorSince == IF last.created THEN <<>> ELSE Since(Prior)

AllOk(h) == \A i \in 1..Len(h) : h[i].fate = "ok"

\* C1 as stated, for every limiter: a request that reaches the decision
\* and finds that the key's bucket was created in this window is accepted
\* when fewer than maxRequests requests were accepted since, and rejected
\* when maxRequests were.
C1_Original ==
  (Normal /\ (last.created \/ FreshIn(Prior)))
    => (last.outcome = "accepted" <=> Len(PriorSince) < MaxRequestsOf(last.lim))

\* C1 (amended): with skipSuccessfulRequests disabled, starting from a key
\* without bucket, the first maxRequests requests of one window are
\* accepted and the next one in that window is rejected.
C1_FreshBurst ==
  (Normal /\ ~skipSuccessfulRequests(last.lim)
          /\ (last.created \/ FreshIn(Prior)))
    => (last.outcome = "accepted" <=> Len(PriorSince) < MaxRequestsOf(last.lim))

C1_Witness ==
  /\ last.outcome = "rejected"
  /\ ~skipSuccessfulRequests(last.lim)
  /\ FreshIn(Prior)
  /\ Len(PriorSince) = MaxRequestsOf(last.lim)

\* C2 as stated: with skipSuccessfulRequests disabled the count used for a
\* decision is at least the number of requests accepted for the key in the
\* trailing window and at most one more, and no key has more than
\* maxRequests requests accepted within one window.
C2_Original ==
  /\ (Normal /\ ~skipSuccessfulRequests(last.lim))
       => /\ last.count >= Len(Prior)
          /\ last.count <= Len(Prior) + 1
  /\ \A k \in Keys :
       ~skipSuccessfulRequests(LimiterOfKey(k))
         => Len(hist[k]) <= MaxRequestsOf(LimiterOfKey(k))

\* C3: for requests of one window on a key whose bucket that window
\* created (skipSuccessfulRequests disabled), every accepted request is
\* recorded exactly once, at most maxRequests are accepted, and a request
\* is rejected only when maxRequests were accepted: min(N, maxRequests) of N.
C3_ExactlyMin ==
  \A k \in Keys :
    (~skipSuccessfulRequests(LimiterOfKey(k)) /\ FreshIn(hist[k]))
      => LET burst == Since(hist[k])
         IN /\ requestStore[k].requests = [i \in 1..Len(burst) |-> burst[i].t]
            /\ Len(burst) <= MaxRequestsOf(LimiterOfKey(k))
            /\ (last.outcome = "rejected" /\ last.key = k)
                 => Len(burst) = MaxRequestsOf(LimiterOfKey(k))

\* requests of the same instant: maxRequests accepted, one more rejected
C3_Witness ==
  /\ last.outcome = "rejected"
  /\ ~skipSuccessfulRequests(last.lim)
  /\ FreshIn(hist[last.key])
  /\ Len(Since(hist[last.key])) >= 2
  /\ \A i \in 1..Len(hist[last.key]) : hist[last.key][i].t = last.t

\* C4: a request that finds maxRequests timestamps in the bucket, the
\* oldest of them windowMs or more ago, is accepted.
C4_AcceptedAfterWindow ==
  (Normal /\ Len(last.pre) >= MaxRequestsOf(last.lim)
          /\ last.t >= last.pre[1] + WindowMs)
    => last.outcome = "accepted"

C4_Witness ==
  /\ last.outcome = "accepted"
  /\ Len(last.pre) >= MaxRequestsOf(last.lim)
  /\ last.t = last.pre[1] + WindowMs

\* C5: an invocation in which an error was thrown forwards the request
\* once, logs the error and sends no response of its own.
C5_FailOpen ==
  last.threw
    => /\ last.nextCalls = 1
       /\ last.logged
       /\ last.status = 0
       /\ last.body = <<>>

\* fail-open for a client whose limit is exhausted
C5_Witness ==
  /\ last.threw
  /\ last.nextCalls = 1
  /\ LET k == KeyOf(last.lim, clientIp, "noaddr")
     IN Len(FilterWindow(requestStore[k].requests, now - WindowMs))
          >= MaxRequestsOf(last.lim)

\* C6: an invocation for an OPTIONS request changes neither the store nor
\* the callbacks, sets no header and forwards the request.
C6_ExemptBypass ==
  [][(nreq' = nreq + 1 /\ last'.method = "OPTIONS")
       => /\ requestStore' = requestStore
          /\ listeners' = listeners
          /\ last'.hdr = NoHeaders
          /\ last'.nextCalls = 1
          /\ last'.status = 0]_vars

\* an OPTIONS request forwarded while the limit of its key is exhausted
C6_Witness ==
  /\ last.method = "OPTIONS"
  /\ last.outcome = "skipped"
  /\ LET k == KeyOf(last.lim, clientIp, "noaddr")
     IN Len(FilterWindow(requestStore[k].requests, now - WindowMs))
          >= MaxRequestsOf(last.lim)

\* C7: an invocation for a non-exempt request either forwards the request
\* exactly once and sends nothing, or sends 429 with the body
\* {message, retryAfter} and does not forward.
C7_OneOutcome ==
  last.outcome \in {"accepted", "rejected", "failopen"}
    => \/ /\ last.nextCalls = 1
          /\ last.status = 0
          /\ last.body = <<>>
       \/ /\ last.nextCalls = 0
          /\ last.status = 429
          /\ last.body = <<"message", "retryAfter">>

C7_Witness ==
  /\ last.outcome = "rejected"
  /\ last.nextCalls = 0
  /\ last.status = 429

\* C8 as stated: the remaining header is max(0, maxRequests - count), the
\* count including the request handled when it is accepted.
C8_Original ==
  Normal => last.hdr.remaining = Max0(MaxRequestsOf(last.lim) - Len(last.post))

\* C9 as stated: every non-exempt request that reaches the decision has
\* the limit, remaining and reset headers, the reset derived from the
\* oldest timestamp of the window, and Retry-After iff it is rejected.
C9_Original ==
  Normal
    => /\ last.hdr.limit = MaxRequestsOf(last.lim)
       /\ last.hdr.remaining # NoHeader
       /\ last.hdr.reset # NoHeader
       /\ last.hdr.reset = Ceil(last.post[1] + WindowMs, MsPerSec)
       /\ (last.hdr.retryAfter # NoHeader <=> last.outcome = "rejected")

AllErr(h) == \A i \in 1..Len(h) : h[i].fate = "err"

\* C11 as stated: with skipSuccessfulRequests, a request that follows
\* maxRequests or more requests of its window that all ended with a status
\* of 400 or more is rejected.
C11_Original ==
  (Normal /\ skipSuccessfulRequests(last.lim)
          /\ Len(Prior) >= MaxRequestsOf(last.lim) /\ AllErr(Prior))
    => last.outcome = "rejected"

\* a step of the sweep: the store changes without a request handled and
\* without a callback consumed
SweepStep ==
  /\ nreq' = nreq
  /\ listeners' = listeners
  /\ requestStore' # requestStore

\* the number of timestamps of a bucket inside the window that ends at t
CountInWindow(requests, t) ==
  Cardinality({i \in 1..Len(requests) :
                 requests[i] > t - WindowMs /\ requests[i] <= t})

\* C12 as stated: a sweep leaves every bucket that holds a timestamp of
\* the current window as it is.
C12_Original ==
  [][SweepStep
       => \A k \in Keys :
            CountInWindow(requestStore[k].requests, now) > 0
              => requestStore'[k] = requestStore[k]]_vars

\* the bucket of key k was created at time f and is in the store
BucketOf(k, f) ==
  requestStore[k] # NoEntry /\ requestStore[k].firstRequest = f

\* C13: a sweep deletes exactly the buckets whose firstRequest is more
\* than the cutoff distance in the past and leaves the others unchanged;
\* every bucket that grows stale within the time modelled is eventually
\* deleted (the buckets of a run are those of its client).
C13_SweepStaleOnly ==
  /\ [][SweepStep
          => \A k \in Keys :
               requestStore'[k] =
                 IF requestStore[k] # NoEntry
                      /\ requestStore[k].firstRequest < now - StaleMs
                   THEN NoEntry ELSE requestStore[k]]_vars
  /\ \A lim \in Limiters : \A f \in T0..(MaxTime - StaleMs - 1) :
       BucketOf(KeyOf(lim, clientIp, "noaddr"), f)
         ~> ~BucketOf(KeyOf(lim, clientIp, "noaddr"), f)

\* a sweep has deleted a bucket that was still in use and kept a younger
\* bucket
C13_Witness ==
  \E k, k2 \in Keys :
    /\ requestStore[k] = NoEntry
    /\ hist[k] # <<>>
    /\ requestStore[k2] # NoEntry
    /\ requestStore[k2].firstRequest >= now - StaleMs

\* C14: an invocation changes no bucket but the one of its key, a
\* completion callback changes no bucket but the one of the key it was
\* registered for, and the decision is a function of the key's own bucket.
C14_KeysIndependent ==
  [][/\ (nreq' = nreq + 1)
          => \A k \in Keys \ {last'.key} : requestStore'[k] = requestStore[k]
     /\ (nreq' = nreq /\ listeners' # listeners)
          => \A k \in Keys :
               requestStore'[k] # requestStore[k]
                 => \E l \in BagToSet(listeners) :
                      /\ l.key = k
                      /\ CopiesIn(l, listeners') < CopiesIn(l, listeners)
     /\ (nreq' = nreq + 1 /\ last'.outcome \in {"accepted", "rejected"})
          => (last'.outcome = "rejected"
                <=> CountInWindow(requestStore[last'.key].requests, now)
                      >= MaxRequestsOf(last'.lim))]_vars

\* a request accepted while another key of the store is at its limit
C14_Witness ==
  /\ last.outcome = "accepted"
  /\ \E k \in Keys \ {last.key} :
       CountInWindow(requestStore[k].requests, now)
         >= MaxRequestsOf(LimiterOfKey(k))

\* C15 as stated: a request without IP that reaches the decision is
\* accounted for under the key built with "0.0.0.0", whatever the limiter.
C15_Original ==
  (clientIp = UNDEF /\ Normal)
    => last.key = keyPrefix(last.lim) \o "0.0.0.0" \o ":" \o RouteOf(last.lim)

\* the URL of the request handled, from the limiter that decided and its key
UrlOfLast ==
  CHOOSE url \in Urls :
    \E i \in 1..Len(Chain(url)) :
      /\ Chain(url)[i].lim = last.lim
      /\ KeyAt(Chain(url)[i], clientIp, url) = last.key

\* the requests to a URL within the trailing window that passed every
\* limiter mounted over it
Passed(url) ==
  Len(hist[KeyAt(Chain(url)[Len(Chain(url))], clientIp, url)])

\* C16 as stated: a request to an authentication route is rejected after
\* fewer requests of the window than the standard limit, and a request to
\* the search route is rejected only after more requests of the window
\* than the standard limit.
C16_Original ==
  last.outcome = "rejected"
    => /\ UrlOfLast = AuthUrl => Passed(AuthUrl) < StandardMax
       /\ UrlOfLast = SearchUrl => Passed(SearchUrl) > StandardMax
\* the development routes and the development authentication middlewares
DevHandlers ==
  {"create-user", "users", "mock-login", "cleanup",
   "authenticateDev", "mockFirebaseAuth"}

\* C17 as stated: outside NODE_ENV = "development" the development routes
\* and middlewares refuse the request: nothing is forwarded, and no user
\* is created, returned or deleted.
C17_Original ==
  (resp.handler \in DevHandlers /\ nodeEnv # "development")
    => /\ resp.status \in {401, 403, 404}
       /\ ~resp.forwarded
       /\ resp.created = {}
       /\ resp.returned = {}
       /\ resp.deleted = {}

\* C18: authenticate skips the verification of the token only when
\* NODE_ENV is "development" and x-dev-bypass is "true"; elsewhere a
\* request with x-dev-bypass: true and without a token that Firebase
\* verifies is answered with 401 and not forwarded, without req.user.
C18_BypassOnlyInDevelopment ==
  resp.handler = "authenticate"
    => /\ (resp.forwarded /\ ~resp.verified)
            => (nodeEnv = "development" /\ resp.bypass = "true")
       /\ (nodeEnv # "development" /\ resp.bypass = "true"
              /\ resp.token \notin {"valid-alice", "valid-unknown", "valid-nouid"})
            => /\ resp.status = 401
               /\ ~resp.forwarded
               /\ resp.user = NoUser
               /\ resp.created = {}

\* the bypass header without token, outside development
C18_Witness ==
  /\ resp.handler = "authenticate"
  /\ nodeEnv \in {"test", UNDEF}
  /\ resp.bypass = "true"
  /\ resp.token = "none"
  /\ resp.status = 401

\* C19: the count the decision uses is the number of timestamps t of the
\* key's bucket with now - windowMs < t <= now.
C19_SlidingCount ==
  Normal
    => /\ last.count = CountInWindow(last.pre, last.t)
       /\ last.outcome = "rejected" <=> last.count >= MaxRequestsOf(last.lim)

\* the window has slid past the oldest timestamp only: the request is
\* accepted while younger timestamps still count
C19_Witness ==
  /\ last.outcome = "accepted"
  /\ Len(last.pre) >= MaxRequestsOf(last.lim)
  /\ last.count > 0
  /\ last.count < Len(last.pre)

\* C20 as stated: the Retry-After of a rejection is the time until the
\* oldest timestamp of the window leaves it, in seconds.
C20_Original ==
  last.outcome = "rejected"
    => last.hdr.retryAfter = Ceil(last.post[1] + WindowMs - last.t, MsPerSec)

\* every accepted request of the key has ended: no callback is pending
AllEnded(k) == \A l \in BagToSet(listeners) : l.key # k

\* the accepted requests of the trailing window that ended with an error
\* status
Errors(h) == Cardinality({i \in 1..Len(h) : h[i].fate = "err"})

\* C21 as stated: with skipSuccessfulRequests, once every accepted request
\* of a key has ended, completed or aborted, the count of the key is the
\* number of accepted requests of the window that ended with an error
\* status.
C21_Original ==
  \A k \in Keys :
    (skipSuccessfulRequests(LimiterOfKey(k)) /\ AllEnded(k))
      => CountInWindow(requestStore[k].requests, now) = Errors(hist[k])

\* C22: the timestamps of every bucket are in non-decreasing order, the
\* firstRequest of a new bucket is the time of the request that creates
\* it, and the firstRequest of a bucket never changes.
C22_OrderedAndFirstFixed ==
  /\ [](\A k \in Keys :
          \A i \in 1..(Len(requestStore[k].requests) - 1) :
            requestStore[k].requests[i] <= requestStore[k].requests[i + 1])
  /\ [][\A k \in Keys :
          /\ (requestStore[k] = NoEntry /\ requestStore'[k] # NoEntry)
               => (nreq' = nreq + 1 /\ requestStore'[k].firstRequest = now)
          /\ (requestStore[k] # NoEntry /\ requestStore'[k] # NoEntry)
               => requestStore'[k].firstRequest = requestStore[k].firstRequest]_vars

\* a bucket older than its oldest timestamp, after pruning and after a
\* removal by a completion callback, with timestamps of different times
C22_Witness ==
  \E k \in Keys :
    /\ Len(requestStore[k].requests) >= 2
    /\ requestStore[k].requests[1] < requestStore[k].requests[2]
    /\ requestStore[k].firstRequest < requestStore[k].requests[1]
    /\ \E i \in 1..Len(hist[k]) : hist[k][i].fate = "ok"

\* C23: a rejection leaves in the bucket the timestamps of the window that
\* were there before, and nothing else.
C23_RejectedNotRecorded ==
  last.outcome = "rejected"
    => /\ requestStore[last.key].requests
            = SelectSeq(last.pre, LAMBDA t : t > last.t - WindowMs)
       /\ last.t \notin {last.pre[i] : i \in 1..Len(last.pre)}
            => last.t \notin {requestStore[last.key].requests[i] :
                                i \in 1..Len(requestStore[last.key].requests)}

\* a request rejected some time after the bucket filled up
C23_Witness ==
  /\ last.outcome = "rejected"
  /\ requestStore[last.key].requests = last.pre
  /\ last.pre[Len(last.pre)] < last.t

\* C24: no bucket holds more than maxRequests timestamps.
C24_AtMostMax ==
  \A k \in Keys :
    Len(requestStore[k].requests) <= MaxRequestsOf(LimiterOfKey(k))

\* a full bucket that still holds a timestamp that has left the window
C24_Witness ==
  \E k \in Keys :
    /\ Len(requestStore[k].requests) = MaxRequestsOf(LimiterOfKey(k))
    /\ Len(requestStore[k].requests) >= 2
    /\ requestStore[k].requests[1] <= now - WindowMs

\* a value occurs at most once in a sequence
NoRepeat(s) == \A i, j \in 1..Len(s) : s[i] = s[j] => i = j

\* C25 as stated: when no follow or unfollow request is under way, B is in
\* A.following iff A is in B.followers, no list holds a user twice and
\* nobody follows themselves.
C25_Original ==
  flight = EmptyBag
    => \A a, b \in DOMAIN userDocs :
         /\ Includes(userDocs[a].following, b)
              <=> Includes(userDocs[b].followers, a)
         /\ NoRepeat(userDocs[a].following)
         /\ NoRepeat(userDocs[a].followers)
         /\ ~Includes(userDocs[a].following, a)

\* the values of a sequence
Range(s) == {s[i] : i \in 1..Len(s)}

\* C26 as stated: after any interleaving of like requests no user id is
\* twice in a post's likes, and the likeCount a like request returns is the
\* number of distinct users who like the post at that moment.
C26_Original ==
  /\ \A p \in DOMAIN postDocs : NoRepeat(postDocs[p].likes)
  /\ (appResp.handler = "like" /\ appResp.status = 200)
       => appResp.likeCount
            = Cardinality(Range(postDocs[appResp.target].likes))

\* the latest response answers a rate request for a number outside 1..5
RatedOutOfRange(r) ==
  /\ r.handler = "rate"
  /\ r.rating.kind = "number"
  /\ (r.rating.value < 1 \/ r.rating.value > 5)

\* what a sneaker's ratings are to be
RatingsSound(sn) ==
  LET ratings == sneakerDocs[sn].ratings
      avg == sneakerDocs[sn].averageRating
  IN /\ \A i, j \in 1..Len(ratings) :
          ratings[i].userId = ratings[j].userId => i = j
     /\ \A i \in 1..Len(ratings) : ratings[i].rating \in 1..5
     /\ avg.den > 0
     /\ avg.num * Max0(Len(ratings)) = SumRatings(ratings) * avg.den
     /\ Len(ratings) = 0 => avg.num = 0

\* C27: after every rate request of a sequence served one after the other,
\* a sneaker holds at most one rating per user, every rating is between 1
\* and 5, and averageRating is the sum of the ratings divided by their
\* number (0 without ratings); a request answered 200 leaves the user's
\* rating at the value sent, and a request with a number outside 1..5 is
\* answered 400 and changes no document.
C27_OneRatingInRangeAveraged ==
  [][/\ \A sn \in DOMAIN sneakerDocs' : RatingsSound(sn)'
     /\ (appResp'.handler = "rate" /\ appResp'.status = 200)
         => \E i \in 1..Len(sneakerDocs'[appResp'.target].ratings) :
              sneakerDocs'[appResp'.target].ratings[i]
                = [userId |-> appResp'.actor,
                   rating |-> appResp'.rating.value]
     /\ RatedOutOfRange(appResp')
         => /\ appResp'.status = 400
            /\ UNCHANGED <<userDocs, postDocs, sneakerDocs>>]_vars

\* a sneaker holds the ratings of two users, 8 in sum, and a request with a
\* number outside 1..5 for that sneaker has just been answered 400
C27_Witness ==
  /\ RatedOutOfRange(appResp)
  /\ appResp.status = 400
  /\ appResp.target \in DOMAIN sneakerDocs
  /\ Len(sneakerDocs[appResp.target].ratings) = 2
  /\ sneakerDocs[appResp.target].averageRating = Frac(8, 2)

\* C28: a PUT or DELETE on a stored post by a user who is not its owner is
\* answered 403 and changes neither the post, nor the posts list of its
\* sneaker, nor any user's totalSneakerCount.
C28_OnlyOwnerChanges ==
  [][(/\ appResp'.handler \in {"put", "delete"}
      /\ appResp'.target \in DOMAIN postDocs
      /\ postDocs[appResp'.target].userId # appResp'.actor)
     => /\ appResp'.status = 403
        /\ UNCHANGED <<postDocs, sneakerDocs, userDocs>>]_vars

\* a DELETE by another user has been answered 403; the post is stored, is
\* in the posts list of its sneaker and has been edited by its owner
C28_Witness ==
  /\ appResp.handler = "delete"
  /\ appResp.status = 403
  /\ appResp.target \in DOMAIN postDocs
  /\ postDocs[appResp.target].userId # appResp.actor
  /\ postDocs[appResp.target].description = "d1"
  /\ Includes(sneakerDocs[postDocs[appResp.target].sneakerId].posts,
              appResp.target)

\* C29 as stated: after every successful creation and every successful
\* deletion of a post, the acting user's totalSneakerCount is the number
\* of distinct sneakers among the posts the user still has.
C29_Original ==
  (\/ appResp.handler = "create" /\ appResp.status = 201
   \/ appResp.handler = "delete" /\ appResp.status = 200)
    => userDocs[appResp.actor].totalSneakerCount
         = DistinctSneakers(appResp.actor, postDocs)
====
